---- MODULE Spec2Model ----
(***************************************************************************)
(* CHROMAX ST demo: the layout / reagent / protocol rule engine of         *)
(* src/app.py (check_layout_water_rules, check_program, the cross-program  *)
(* detectors, check_multi) and the API handlers that change the STATE it   *)
(* reads.                                                                  *)
(*                                                                         *)
(* Conventions.                                                            *)
(*   - Python dicts are functions, lists are sequences, None is <<>> and   *)
(*     a present optional value x is <<x>>.                                *)
(*   - A finding is a record with the source's keys code, level, details   *)
(*     (and program, once check_multi has tagged it).  The key "message"   *)
(*     is a fixed text per code and is left out.                           *)
(*   - A reagent keeps the keys id and class_id; name and override_color   *)
(*     are display attributes no rule reads.                               *)
(*   - in_flight is None while no evaluation is under way.                 *)
(*   - run and validation belong to the run validator of src/main.py: the  *)
(*     request POST /validate has received and its answer, None while      *)
(*     there is none.                                                      *)
(***************************************************************************)
EXTENDS Integers, Sequences, FiniteSets, TLC

VARIABLES classes, reagents, layout, programs, selected_program,
          selected_for_run, w_mode, water_flow_l_min, last_check, in_flight,
          run, validation

vars == <<classes, reagents, layout, programs, selected_program,
          selected_for_run, w_mode, water_flow_l_min, last_check, in_flight,
          run, validation>>

\* the state of the run validator of src/main.py
main_vars == <<run, validation>>

(***************************************************************************)
(* Layout constants                                                        *)
(***************************************************************************)
TOP_ROW ==
  <<"R1", "R2", "R3", "R4", "R5", "R6", "R7",
    "W1", "W2", "W3", "W4", "W5", "OVEN">>

BOTTOM_ROW ==
  <<"R18", "R17", "R16", "R15", "R14", "R13", "R12", "R11", "R10", "R9", "R8",
    "OUTPUT", "UNLOAD", "LOAD">>

ALL_SLOTS == TOP_ROW \o BOTTOM_ROW

\* enumerate(ALL_SLOTS): positions count from 0
SLOT_POS ==
  [s \in {ALL_SLOTS[i] : i \in DOMAIN ALL_SLOTS} |->
     (CHOOSE i \in DOMAIN ALL_SLOTS : ALL_SLOTS[i] = s) - 1]

(***************************************************************************)
(* Python built-ins the rules use                                          *)
(***************************************************************************)
None == <<>>

Some(x) == <<x>>

\* str.strip() on the texts the model submits: the padded ones lose their
\* blanks, a text of blanks only becomes empty, any other text has no
\* leading or trailing blank and is returned as it is.
strip(s) ==
  CASE s = " "          -> ""
    [] s = "  "         -> ""
    [] s = " R1"        -> "R1"
    [] s = " R2"        -> "R2"
    [] s = " R3"        -> "R3"
    [] s = "R5 "        -> "R5"
    [] s = " rinse "    -> "rinse"
    [] s = " eosin"     -> "eosin"
    [] s = " B"         -> "B"
    [] OTHER            -> s

\* str.upper, on the texts the requests carry
upper(s) ==
  CASE s = "water" -> "WATER"
    [] s = "reagent" -> "REAGENT"
    [] s = "x1" -> "X1"
    [] s = "empty" -> "EMPTY"
    [] OTHER -> s

\* Python's "x or d" on a text
or_else(x, d) == IF x = "" THEN d ELSE x

\* max() of two integers
max(a, b) == IF a >= b THEN a ELSE b

\* the slot names in the order sorted() gives a list of them (code points:
\* digits before letters, so "R10" sorts before "R2")
SortedSlots ==
  <<"LOAD", "OUTPUT", "OVEN",
    "R1", "R10", "R11", "R12", "R13", "R14", "R15", "R16", "R17", "R18",
    "R2", "R3", "R4", "R5", "R6", "R7", "R8", "R9",
    "UNLOAD", "W1", "W2", "W3", "W4", "W5">>

\* sorted(list(S)) for a set S of slot names
sorted(S) == SelectSeq(SortedSlots, LAMBDA s : s \in S)

\* set(xs) of a list
set(xs) == {xs[i] : i \in DOMAIN xs}

\* xs.index(a): the first place of a in xs, counted from 0
index(xs, a) == (CHOOSE i \in DOMAIN xs : xs[i] = a /\ \A k \in 1..(i - 1) : xs[k] # a) - 1

\* statement order: e is evaluated to a value v, then F(v) is; the loops
\* below carry their accumulator this way from one pass to the next
Then(e, F(_)) == CHOOSE r \in {F(v) : v \in {e}} : TRUE

\* faulty variant: the cut is left out
take_all(xs, n) == xs

\* xs[:n]
take(xs, n) == SubSeq(xs, 1, IF Len(xs) < n THEN Len(xs) ELSE n)

(***************************************************************************)
(* Severity                                                                *)
(***************************************************************************)
SEVERITY == [OK |-> 1, WARN |-> 2, BLOCK |-> 3]

\* faulty variant: the latest level replaces the current one
bump_latest(cur, new) == new

bump(cur, new) == IF SEVERITY[new] > SEVERITY[cur] THEN new ELSE cur

(***************************************************************************)
(* Defaults                                                                *)
(***************************************************************************)
\* the keys of DEFAULT_CLASSES (the rules read class identifiers only)
DEFAULT_CLASSES ==
  {"EMPTY", "WATER", "ALCOHOL", "XYLENE", "CLEARING", "HEMATOXYLIN", "EOSIN",
   "OTHER", "OVEN", "IO"}

Reagent(id, cid) == [id |-> id, class_id |-> cid]

DEFAULT_REAGENTS ==
  [rid \in {"EMPTY", "H2O", "ALC96", "XYL", "CLR", "HEM", "EOS", "OVEN",
            "OUTPUT", "UNLOAD", "LOAD"} |->
     Reagent(rid,
       CASE rid = "EMPTY" -> "EMPTY"
         [] rid = "H2O"   -> "WATER"
         [] rid = "ALC96" -> "ALCOHOL"
         [] rid = "XYL"   -> "XYLENE"
         [] rid = "CLR"   -> "CLEARING"
         [] rid = "HEM"   -> "HEMATOXYLIN"
         [] rid = "EOS"   -> "EOSIN"
         [] rid = "OVEN"  -> "OVEN"
         [] OTHER         -> "IO")]

default_layout ==
  [s \in DOMAIN SLOT_POS |->
     [reagent_id |->
        CASE s \in {"W1", "W2", "W3", "W4", "W5"} -> "H2O"
          [] s \in {"OVEN", "OUTPUT", "UNLOAD", "LOAD"} -> s
          [] OTHER -> "EMPTY"]]

Step(name, slot, time_sec, exact) ==
  [name |-> name, slot |-> slot, time_sec |-> time_sec, exact |-> exact]

DEFAULT_PROGRAMS ==
  [n \in {"H&E"} |->
     [steps |->
        << Step("deparaffinization", "R1", 300, TRUE),
           Step("hematoxylin",       "R2", 180, TRUE),
           Step("rinse",             "W5", 60,  FALSE),
           Step("eosin",             "R3", 120, TRUE),
           Step("dehydrate",         "R4", 240, FALSE),
           Step("clear",             "R5", 180, FALSE) >>]]

(***************************************************************************)
(* Helpers: class / slot kind                                              *)
(***************************************************************************)
reagent_of_slot(slot) ==
  IF slot \in DOMAIN layout THEN layout[slot].reagent_id ELSE "EMPTY"

reagent_class(reagent_id) ==
  IF reagent_id \in DOMAIN reagents THEN reagents[reagent_id].class_id ELSE "OTHER"

slot_class(slot) == reagent_class(reagent_of_slot(slot))

\* the mode of W1 / W2 decides their kind
dual_mode_kind(mode) == IF mode = "WATER" THEN "water" ELSE "reagent"

\* slot.startswith("W") on the slot names of the layout
startswith_W(slot) == slot \in {"W1", "W2", "W3", "W4", "W5"}

slot_kind(slot) ==
  IF slot \in {"OVEN"} THEN "oven"
  ELSE IF slot \in {"OUTPUT", "UNLOAD", "LOAD"} THEN "io"
  ELSE IF slot \in {"W3", "W4", "W5"} THEN "water"
  ELSE IF slot \in {"W1", "W2"} THEN dual_mode_kind(w_mode[slot])
  ELSE IF startswith_W(slot) THEN "water"
  ELSE "reagent"

(***************************************************************************)
(* Rules                                                                   *)
(***************************************************************************)
WATER_STEPS == {"rinse", "water", "wash"}

OVEN_STEPS == {"oven", "bake", "dry"}

STEP_ALLOWED_CLASSES ==
  [n \in {"rinse", "water", "wash", "hematoxylin", "eosin", "dehydrate",
          "clear", "deparaffinization", "custom_step"} |->
     CASE n \in {"rinse", "water", "wash"} -> <<"WATER">>
       [] n = "hematoxylin" -> <<"HEMATOXYLIN", "OTHER">>
       [] n = "eosin"       -> <<"EOSIN", "OTHER">>
       [] n = "dehydrate"   -> <<"ALCOHOL", "OTHER">>
       [] n \in {"clear", "deparaffinization"} -> <<"XYLENE", "CLEARING", "OTHER">>
       [] OTHER -> <<"OTHER", "ALCOHOL", "XYLENE", "CLEARING", "HEMATOXYLIN",
                     "EOSIN", "WATER", "EMPTY">>]

\* findings.append(f); overall = bump(overall, f["level"])
emit(acc, f) ==
  [acc EXCEPT !.findings = Append(@, f), !.overall = bump(@, f.level)]

Finding(code, level, details) == [code |-> code, level |-> level, details |-> details]

\* the water-flow threshold of the flow warning, in L/min
FLOW_MIN == 8

\* W3-W5: always real water
fixed_water_rule(acc, w) ==
  IF slot_class(w) # "WATER"
  THEN emit(acc, Finding("E-WATER-FIXED", "BLOCK",
         [slot |-> w, reagent |-> reagent_of_slot(w), class |-> slot_class(w)]))
  ELSE acc

\* faulty variant: water is required of W1/W2 whatever the mode
dual_water_rule_any_mode(acc, w) ==
  IF slot_class(w) # "WATER"
  THEN emit(acc, Finding("E-W12-WATERMODE", "BLOCK",
         [slot |-> w, mode |-> w_mode[w], reagent |-> reagent_of_slot(w),
          class |-> slot_class(w)]))
  ELSE acc

\* faulty variant: a station the last check reported stays reported
dual_water_rule_sticky(acc, w) ==
  IF \/ w_mode[w] = "WATER" /\ slot_class(w) # "WATER"
     \/ /\ last_check # <<>>
        /\ \E i \in DOMAIN last_check[1].findings :
             /\ last_check[1].findings[i].code = "E-W12-WATERMODE"
             /\ last_check[1].findings[i].details.slot = w
  THEN emit(acc, Finding("E-W12-WATERMODE", "BLOCK",
         [slot |-> w, mode |-> "WATER", reagent |-> reagent_of_slot(w),
          class |-> slot_class(w)]))
  ELSE acc

\* W1/W2: water is required while the mode is WATER
dual_water_rule(acc, w) ==
  IF w_mode[w] = "WATER" /\ slot_class(w) # "WATER"
  THEN emit(acc, Finding("E-W12-WATERMODE", "BLOCK",
         [slot |-> w, mode |-> w_mode[w], reagent |-> reagent_of_slot(w),
          class |-> slot_class(w)]))
  ELSE acc

flow_rule(acc) ==
  IF water_flow_l_min < FLOW_MIN
  THEN emit(acc, Finding("W-FLOW", "WARN", [water_flow_l_min |-> water_flow_l_min]))
  ELSE acc

\* appends to the caller's findings and returns its own overall, which
\* starts at OK: the result is the record [findings, overall]
check_layout_water_rules(findings) ==
  LET a0 == [findings |-> findings, overall |-> "OK"]
      a3 == fixed_water_rule(fixed_water_rule(fixed_water_rule(a0, "W3"), "W4"), "W5")
      a5 == dual_water_rule(dual_water_rule(a3, "W1"), "W2")
  IN flow_rule(a5)

\* --- check_program: the rules of one step, in the order of the loop body ---

time_rule(acc, idx, t) ==
  IF t <= 0
  THEN emit(acc, Finding("W-TIME", "WARN", [step |-> idx, time_sec |-> t]))
  ELSE acc

\* faulty variant: a step that stays on the station counts as a move backwards
reverse_move_or_stay(pos, last_pos) == pos <= last_pos

\* "nicht rueckwaerts": the test of the order rule
reverse_move(pos, last_pos) == pos < last_pos

\* faulty variant: the carried position is never updated
carry_last_pos_stuck(last_pos, pos) == last_pos

\* faulty variant: the carried position is that of the latest step
carry_last_pos_latest(last_pos, pos) == pos

\* the position carried to the next step
carry_last_pos(last_pos, pos) == max(last_pos, pos)

order_rule(acc, idx, slot) ==
  LET pos == SLOT_POS[slot]
      a1 == IF reverse_move(pos, acc.last_pos)
            THEN emit(acc, Finding("E-REVERSE", "BLOCK",
                   [step |-> idx, slot |-> slot, pos |-> pos,
                    previous_pos |-> acc.last_pos]))
            ELSE acc
  IN [a1 EXCEPT !.last_pos = carry_last_pos(acc.last_pos, pos)]

\* the test of the oven-count rule
oven_repeated(oven_count) == oven_count > 1

oven_rule(acc, idx, name, slot) ==
  IF name \in OVEN_STEPS
  THEN LET a1 == IF slot # "OVEN"
                 THEN emit(acc, Finding("E-OVEN-SLOT", "BLOCK",
                        [step |-> idx, slot |-> slot]))
                 ELSE acc
           a2 == [a1 EXCEPT !.oven_count = @ + 1]
       IN IF oven_repeated(a2.oven_count)
          THEN emit(a2, Finding("E-OVEN-COUNT", "BLOCK", [step |-> idx]))
          ELSE a2
  ELSE acc

\* faulty variant: the kind is read off the slot name, whatever the mode of W1/W2
water_kind_missing_by_name(slot) == ~startswith_W(slot)

\* faulty variant: an unassigned station passes the class test of a wash step
water_class_missing_unless_empty(slot) == slot_class(slot) \notin {"WATER", "EMPTY"}

\* the two tests of the water rule
water_kind_missing(slot) == slot_kind(slot) # "water"

water_class_missing(slot) == slot_class(slot) # "WATER"

water_rule(acc, idx, name, slot) ==
  IF name \in WATER_STEPS
  THEN LET a1 == IF water_kind_missing(slot)
                 THEN emit(acc, Finding("E-WATER-KIND", "BLOCK",
                        [step |-> idx, slot |-> slot, slot_kind |-> slot_kind(slot),
                         w_mode |-> w_mode]))
                 ELSE acc
       IN IF water_class_missing(slot)
          THEN emit(a1, Finding("E-WATER-CLASS", "BLOCK",
                 [step |-> idx, slot |-> slot, reagent |-> reagent_of_slot(slot),
                  class |-> slot_class(slot)]))
          ELSE a1
  ELSE acc

\* faulty variant: a name without an entry is held to the class OTHER
allowed_classes_or_other(name) ==
  IF name \in DOMAIN STEP_ALLOWED_CLASSES THEN STEP_ALLOWED_CLASSES[name] ELSE <<"OTHER">>

\* STEP_ALLOWED_CLASSES.get(name): None for a name without an entry
allowed_classes(name) ==
  IF name \in DOMAIN STEP_ALLOWED_CLASSES THEN STEP_ALLOWED_CLASSES[name] ELSE None

\* the guard of the class-compatibility rule
class_rule_applies(name) ==
  /\ allowed_classes(name) # <<>>
  /\ name \notin WATER_STEPS
  /\ name \notin OVEN_STEPS

\* faulty variant: the branch for an unassigned station is never taken
slot_is_empty_skipped(sc) == FALSE

\* the branch taken for an unassigned station
slot_is_empty(sc) == sc = "EMPTY"

class_rule(acc, idx, name, slot) ==
  IF class_rule_applies(name)
  THEN LET sc == slot_class(slot)
           allowed == allowed_classes(name)
       IN IF slot_is_empty(sc)
          THEN emit(acc, Finding("W-EMPTY-SLOT", "WARN", [step |-> idx, slot |-> slot]))
          ELSE IF sc \notin set(allowed)
          THEN emit(acc, Finding("E-CLASS", "BLOCK",
                 [step |-> idx, name |-> name, slot |-> slot, slot_class |-> sc,
                  allowed |-> allowed]))
          ELSE acc
  ELSE acc

\* faulty variant: a blank name is reported but the step is not skipped
check_step_without_continue(s, idx, acc) ==
  LET name == strip(s.name)
      slot == strip(s.slot)
      t    == s.time_sec
      a0   == IF name = ""
              THEN emit(acc, Finding("E-STEP-NAME", "BLOCK", [step |-> idx]))
              ELSE acc
  IN IF slot \notin DOMAIN SLOT_POS
     THEN emit(a0, Finding("E-SLOT", "BLOCK", [step |-> idx, slot |-> slot]))
     ELSE class_rule(
            water_rule(
              oven_rule(
                order_rule(time_rule(a0, idx, t), idx, slot),
                idx, name, slot),
              idx, name, slot),
            idx, name, slot)

\* one pass of the loop over the steps; a blank name or an unknown slot
\* ends the pass ("continue") after its finding
check_step(s, idx, acc) ==
  LET name == strip(s.name)
      slot == strip(s.slot)
      t    == s.time_sec
  IN IF name = ""
     THEN emit(acc, Finding("E-STEP-NAME", "BLOCK", [step |-> idx]))
     ELSE IF slot \notin DOMAIN SLOT_POS
     THEN emit(acc, Finding("E-SLOT", "BLOCK", [step |-> idx, slot |-> slot]))
     ELSE class_rule(
            water_rule(
              oven_rule(
                order_rule(time_rule(acc, idx, t), idx, slot),
                idx, name, slot),
              idx, name, slot),
            idx, name, slot)

RECURSIVE step_loop(_, _, _)
step_loop(steps, idx, acc) ==
  IF idx > Len(steps) THEN acc
  ELSE Then(check_step(steps[idx], idx, acc),
            LAMBDA a : step_loop(steps, idx + 1, a))

\* the position carried before the first step
LAST_POS_START == -1

check_program(program_name) ==
  IF program_name \notin DOMAIN programs
  THEN [program |-> program_name, overall |-> "BLOCK",
        findings |-> <<Finding("E-NOTFOUND", "BLOCK", <<>>)>>]
  ELSE LET steps == programs[program_name].steps
           a0 == [findings |-> <<>>, overall |-> "OK",
                  last_pos |-> LAST_POS_START, oven_count |-> 0]
           a1 == IF steps = <<>>
                 THEN emit(a0, Finding("W-EMPTY", "WARN", <<>>))
                 ELSE a0
           a2 == step_loop(steps, 1, a1)
       IN [program |-> program_name, overall |-> a2.overall, findings |-> a2.findings]

(***************************************************************************)
(* Cross-program detectors                                                 *)
(***************************************************************************)
\* set(s.get("slot") for s in steps if s.get("exact") and s.get("slot") in SLOT_POS)
exact_slots(steps) ==
  {steps[i].slot : i \in {k \in DOMAIN steps :
                            steps[k].exact /\ steps[k].slot \in DOMAIN SLOT_POS}}

\* set(s.get("slot") for s in steps if s.get("slot") in SLOT_POS)
visited_slots(steps) ==
  {steps[i].slot : i \in {k \in DOMAIN steps : steps[k].slot \in DOMAIN SLOT_POS}}

\* [s.get("slot") for s in steps if s.get("slot") in SLOT_POS]
slot_order(steps) ==
  LET known == SelectSeq(steps, LAMBDA s : s.slot \in DOMAIN SLOT_POS)
  IN [i \in DOMAIN known |-> known[i].slot]

\* faulty variant: every station of the second program counts, exact or not
exact_station_conflict_one_sided(p1_steps, p2_steps) ==
  sorted(exact_slots(p1_steps) \cap visited_slots(p2_steps))

exact_station_conflict(p1_steps, p2_steps) ==
  sorted(exact_slots(p1_steps) \cap exact_slots(p2_steps))

shared_station_warn(p1_steps, p2_steps) ==
  sorted(visited_slots(p1_steps) \cap visited_slots(p2_steps))

\* faulty variant: the order in the first program alone decides
order_differs_one_sided(p1_order, p2_order, a, b) ==
  index(p1_order, a) < index(p1_order, b)

\* the two tests on a pair (a, b) of common stations
order_differs(p1_order, p2_order, a, b) ==
  \/ index(p1_order, a) < index(p1_order, b) /\ index(p2_order, a) > index(p2_order, b)
  \/ index(p1_order, a) > index(p1_order, b) /\ index(p2_order, a) < index(p2_order, b)

\* the first pair (i, j), i < j, of places of common that differs in order,
\* as the nested loops find it; None when there is none
reverse_order_conflict(p1_steps, p2_steps) ==
  LET p1_order == slot_order(p1_steps)
      p2_order == slot_order(p2_steps)
      common == SelectSeq(p1_order, LAMBDA s : s \in set(p2_order))
      hits == {h \in (DOMAIN common) \X (DOMAIN common) :
                 /\ h[1] < h[2]
                 /\ order_differs(p1_order, p2_order, common[h[1]], common[h[2]])}
  IN IF hits = {} THEN None
     ELSE LET h == CHOOSE x \in hits :
                     \A y \in hits : x[1] < y[1] \/ (x[1] = y[1] /\ x[2] <= y[2])
          IN <<common[h[1]], common[h[2]]>>

(***************************************************************************)
(* check_multi                                                             *)
(***************************************************************************)
\* (STATE["programs"].get(p) or {}).get("steps") or []
steps_of(p) == IF p \in DOMAIN programs THEN programs[p].steps ELSE <<>>

\* {**f, "program": p}
tagged(f, p) == [program |-> p] @@ f

\* f"{p1} + {p2}", kept as its three pieces
pair_label(p1, p2) == <<p1, " + ", p2>>

\* the number of shared stations a finding lists
SHARED_CAP == 10

exact_pair_rule(acc, p1, p2) ==
  LET ex == exact_station_conflict(steps_of(p1), steps_of(p2))
  IN IF ex # <<>>
     THEN emit(acc, tagged(Finding("E-EXACT-CONFLICT", "BLOCK",
            [program_1 |-> p1, program_2 |-> p2, stations |-> ex]),
            pair_label(p1, p2)))
     ELSE acc

reverse_pair_rule(acc, p1, p2) ==
  LET rev == reverse_order_conflict(steps_of(p1), steps_of(p2))
  IN IF rev # None
     THEN emit(acc, tagged(Finding("E-REVERSE-CONFLICT", "BLOCK",
            [program_1 |-> p1, program_2 |-> p2, stations |-> <<rev[1], rev[2]>>]),
            pair_label(p1, p2)))
     ELSE acc

shared_pair_rule(acc, p1, p2) ==
  LET shared == shared_station_warn(steps_of(p1), steps_of(p2))
  IN IF shared # <<>>
     THEN emit(acc, tagged(Finding("W-SHARED-STATIONS", "WARN",
            [program_1 |-> p1, program_2 |-> p2,
             stations |-> take(shared, SHARED_CAP)]),
            pair_label(p1, p2)))
     ELSE acc

\* the body of the loops over the pairs
check_pair(acc, p1, p2) ==
  shared_pair_rule(reverse_pair_rule(exact_pair_rule(acc, p1, p2), p1, p2), p1, p2)

\* the first place j of the inner loop for the place i of the outer one
inner_start(i) == i + 1

\* for i in range(len(selected)): for j in range(i + 1, len(selected))
RECURSIVE pair_loop(_, _, _, _)
pair_loop(selected, i, j, acc) ==
  IF i > Len(selected) THEN acc
  ELSE IF j > Len(selected) THEN pair_loop(selected, i + 1, inner_start(i + 1), acc)
  ELSE Then(check_pair(acc, selected[i], selected[j]),
            LAMBDA a : pair_loop(selected, i, j + 1, a))

\* for p in selected: r = check_program(p); ...
RECURSIVE program_loop(_, _, _)
program_loop(selected, k, acc) ==
  IF k > Len(selected) THEN acc
  ELSE LET r == check_program(selected[k])
           fs == [i \in DOMAIN r.findings |-> tagged(r.findings[i], selected[k])]
       IN Then([acc EXCEPT !.per_program = Append(@, r),
                           !.overall = bump(@, r.overall),
                           !.findings = @ \o fs],
               LAMBDA a : program_loop(selected, k + 1, a))

\* overall = bump(overall, check_layout_water_rules(findings))
layout_part ==
  LET lw == check_layout_water_rules(<<>>)
  IN [overall |-> bump("OK", lw.overall), findings |-> lw.findings,
      per_program |-> <<>>]

\* the result "out" of check_multi (which also stores it, see api_check)
check_multi(selected) ==
  LET a1 == program_loop(selected, 1, layout_part)
      a2 == pair_loop(selected, 1, inner_start(1), a1)
  IN [overall |-> a2.overall, findings |-> a2.findings,
      per_program |-> a2.per_program, selected |-> selected]

(***************************************************************************)
(* State                                                                   *)
(***************************************************************************)
\* STATE as the module leaves it when no data file exists
Init ==
  /\ classes = DEFAULT_CLASSES
  /\ reagents = DEFAULT_REAGENTS
  /\ layout = default_layout
  /\ programs = DEFAULT_PROGRAMS
  /\ selected_program = "H&E"
  /\ selected_for_run = <<"H&E">>
  /\ w_mode = [w \in {"W1", "W2"} |-> "WATER"]
  /\ water_flow_l_min = 8
  /\ last_check = None
  /\ in_flight = None
  /\ run = None
  /\ validation = None

\* POST /api/check: check_multi(STATE["selected_for_run"]), which stores
\* its result in STATE["last_check"]
api_check ==
  /\ last_check' = Some(check_multi(selected_for_run))
  /\ UNCHANGED <<classes, reagents, layout, programs, selected_program,
                 selected_for_run, w_mode, water_flow_l_min, in_flight, main_vars>>

\* re.fullmatch(r"[A-Z0-9_\-]{2,32}", s) on the identifiers the requests
\* carry: the empty text and "?" do not match
is_valid_id(s) == s \notin {"", "?"}

\* for slot, rid in req.layout.items(): an unknown slot ends the request
\* (400) after the entries before it have been stored
RECURSIVE layout_items(_, _, _)
layout_items(lay, items, i) ==
  IF i > Len(items) THEN lay
  ELSE LET slot == items[i][1]
           rid  == upper(or_else(items[i][2], "EMPTY"))
           rid2 == IF rid \in DOMAIN reagents THEN rid ELSE "EMPTY"
       IN IF slot \notin DOMAIN lay THEN lay
          ELSE layout_items([lay EXCEPT ![slot] = [reagent_id |-> rid2]], items, i + 1)

\* POST /api/layout/save, the request being a list of (slot, reagent) entries
api_layout_save(items) ==
  /\ layout' = layout_items(layout, items, 1)
  /\ UNCHANGED <<classes, reagents, programs, selected_program, selected_for_run,
                 w_mode, water_flow_l_min, last_check, in_flight, main_vars>>

\* POST /api/waterflow
api_waterflow(flow) ==
  /\ water_flow_l_min' = flow
  /\ UNCHANGED <<classes, reagents, layout, programs, selected_program,
                 selected_for_run, w_mode, last_check, in_flight, main_vars>>

\* POST /api/reagents/upsert: any valid identifier is stored, the reserved
\* ones included
api_reagent_upsert(reagent_id, class_id) ==
  LET rid == upper(strip(reagent_id))
      cid == upper(strip(or_else(class_id, "OTHER")))
  IN IF ~is_valid_id(rid) \/ cid \notin classes
     THEN UNCHANGED vars
     ELSE /\ reagents' = [r \in DOMAIN reagents \cup {rid} |->
                            IF r = rid THEN Reagent(rid, cid) ELSE reagents[r]]
          /\ UNCHANGED <<classes, layout, programs, selected_program,
                         selected_for_run, w_mode, water_flow_l_min, last_check, in_flight, main_vars>>

\* the reagents api_reagent_delete refuses to delete
CORE_REAGENTS == {"EMPTY", "H2O", "OVEN", "OUTPUT", "UNLOAD", "LOAD"}

\* faulty variant: the stations keep the deleted reagent
api_reagent_delete_keeping_layout(reagent_id) ==
  LET rid == upper(strip(reagent_id))
  IN IF rid \in CORE_REAGENTS \/ rid \notin DOMAIN reagents
     THEN UNCHANGED vars
     ELSE /\ reagents' = [r \in DOMAIN reagents \ {rid} |-> reagents[r]]
          /\ UNCHANGED <<classes, layout, programs, selected_program, selected_for_run,
                         w_mode, water_flow_l_min, last_check, in_flight, main_vars>>

\* POST /api/reagents/delete: the stations that held the reagent are emptied
api_reagent_delete(reagent_id) ==
  LET rid == upper(strip(reagent_id))
  IN IF rid \in CORE_REAGENTS \/ rid \notin DOMAIN reagents
     THEN UNCHANGED vars
     ELSE /\ layout' = [s \in DOMAIN layout |->
                          IF layout[s].reagent_id = rid
                          THEN [reagent_id |-> "EMPTY"] ELSE layout[s]]
          /\ reagents' = [r \in DOMAIN reagents \ {rid} |-> reagents[r]]
          /\ UNCHANGED <<classes, programs, selected_program, selected_for_run,
                         w_mode, water_flow_l_min, last_check, in_flight, main_vars>>

\* POST /api/program/save: the steps are stored as sent
api_program_save(name, steps) ==
  IF strip(name) \notin DOMAIN programs
  THEN UNCHANGED vars
  ELSE /\ programs' = [programs EXCEPT ![strip(name)] = [steps |-> steps]]
       /\ UNCHANGED <<classes, reagents, layout, selected_program, selected_for_run,
                      w_mode, water_flow_l_min, last_check, in_flight, main_vars>>

\* sorted(STATE["programs"].keys())[0] on the names the model uses: Python
\* orders texts by code point, "B" < "C" < "H&E"
NAME_ORDER == <<"B", "C", "H&E">>

sorted_first(names) ==
  NAME_ORDER[CHOOSE i \in DOMAIN NAME_ORDER :
               /\ NAME_ORDER[i] \in names
               /\ \A j \in 1..(i - 1) : NAME_ORDER[j] \notin names]

\* [x for x in xs if keep(x)]
filter(xs, keep(_)) == SelectSeq(xs, keep)

\* POST /api/program/create: a new, empty program, which becomes the one
\* under edit
api_program_create(name) ==
  IF strip(name) = "" \/ strip(name) \in DOMAIN programs
  THEN UNCHANGED vars
  ELSE /\ programs' = (strip(name) :> [steps |-> <<>>]) @@ programs
       /\ selected_program' = strip(name)
       /\ UNCHANGED <<classes, reagents, layout, selected_for_run, w_mode,
                      water_flow_l_min, last_check, in_flight, main_vars>>

\* POST /api/program/delete: the last program stays; the program under edit
\* and the run selection are moved off the deleted name
api_program_delete(name) ==
  IF strip(name) \notin DOMAIN programs \/ Cardinality(DOMAIN programs) <= 1
  THEN UNCHANGED vars
  ELSE LET rest == DOMAIN programs \ {strip(name)}
           sp == IF selected_program = strip(name) THEN sorted_first(rest)
                 ELSE selected_program
           kept == filter(selected_for_run, LAMBDA x : x # strip(name))
       IN /\ programs' = [n \in rest |-> programs[n]]
          /\ selected_program' = sp
          /\ selected_for_run' = IF kept # <<>> THEN kept ELSE <<sp>>
          /\ UNCHANGED <<classes, reagents, layout, w_mode, water_flow_l_min,
                         last_check, in_flight, main_vars>>

\* POST /api/program/select
api_program_select(name) ==
  IF strip(name) \notin DOMAIN programs
  THEN UNCHANGED vars
  ELSE /\ selected_program' = strip(name)
       /\ UNCHANGED <<classes, reagents, layout, programs, selected_for_run,
                      w_mode, water_flow_l_min, last_check, in_flight, main_vars>>

\* the most programs one run holds: the [:3] of api_run_select
RUN_CAP == 3

\* POST /api/run/select: the names that exist, the first three of them; the
\* names are compared as sent
api_run_select(selected) ==
  LET chosen == take(filter(selected, LAMBDA x : x \in DOMAIN programs), RUN_CAP)
  IN IF chosen = <<>>
     THEN UNCHANGED vars
     ELSE /\ selected_for_run' = chosen
          /\ UNCHANGED <<classes, reagents, layout, programs, selected_program,
                         w_mode, water_flow_l_min, last_check, in_flight, main_vars>>

\* POST /api/wmode: both flags are set, or neither (400)
api_wmode(W1, W2) ==
  LET w1 == upper(or_else(W1, "WATER"))
      w2 == upper(or_else(W2, "WATER"))
  IN IF w1 \notin {"WATER", "REAGENT"} \/ w2 \notin {"WATER", "REAGENT"}
     THEN UNCHANGED vars
     ELSE /\ w_mode' = [w_mode EXCEPT !["W1"] = w1, !["W2"] = w2]
          /\ UNCHANGED <<classes, reagents, layout, programs, selected_program,
                         selected_for_run, water_flow_l_min, last_check, in_flight, main_vars>>

\* --- check_multi, one stretch at a time ------------------------------------
\* The handlers are plain functions, which the server runs on the threads of
\* a pool; check_multi reads STATE afresh in each of its parts and takes no
\* lock.  in_flight is the evaluation a thread is in the middle of: its
\* argument "selected", the number k of programs checked so far, and the
\* locals overall, findings and per_program gathered so far.

\* entry, and the layout rules
check_begin ==
  /\ in_flight = None
  /\ in_flight' = Some([selected |-> selected_for_run, k |-> 0, acc |-> layout_part])
  /\ UNCHANGED <<classes, reagents, layout, programs, selected_program,
                 selected_for_run, w_mode, water_flow_l_min, last_check, main_vars>>

\* one pass of "for p in selected"
check_next_program ==
  /\ in_flight # None
  /\ in_flight[1].k < Len(in_flight[1].selected)
  /\ in_flight' = Some([in_flight[1] EXCEPT
         !.k = @ + 1,
         !.acc = program_loop(<<in_flight[1].selected[in_flight[1].k + 1]>>, 1,
                              in_flight[1].acc)])
  /\ UNCHANGED <<classes, reagents, layout, programs, selected_program,
                 selected_for_run, w_mode, water_flow_l_min, last_check, main_vars>>

\* what the evaluation in flight returns if it runs on undisturbed
finished(fl) ==
  LET a1 == program_loop(SubSeq(fl.selected, fl.k + 1, Len(fl.selected)), 1, fl.acc)
      a2 == pair_loop(fl.selected, 1, inner_start(1), a1)
  IN [overall |-> a2.overall, findings |-> a2.findings,
      per_program |-> a2.per_program, selected |-> fl.selected]

\* the loops over the pairs, the store into last_check and the return
check_pairs_and_store ==
  /\ in_flight # None
  /\ in_flight[1].k = Len(in_flight[1].selected)
  /\ last_check' = Some(finished(in_flight[1]))
  /\ in_flight' = None
  /\ UNCHANGED <<classes, reagents, layout, programs, selected_program,
                 selected_for_run, w_mode, water_flow_l_min, main_vars>>

(***************************************************************************)
(* The run validator of src/main.py                                        *)
(***************************************************************************)
\* RULES["rules"]; the key "message" is a fixed text per rule and is left
\* out, and a rule without the key "when" has when = None
RULES ==
  << [id |-> "R-ST-SLIDE-LIMIT", when |-> None,
      then |-> [require_max |-> [field |-> "slides_loaded",
                                 max_from_field |-> "max_slides_supported"],
                level |-> "BLOCK"]],
     [id |-> "R-ST-TEMP-RANGE", when |-> None,
      then |-> [require_range |-> [field |-> "temperature_c", min |-> 15, max |-> 30],
                level |-> "BLOCK"]],
     [id |-> "R-ST-STEP-SEQUENCE-HE", when |-> Some([protocol_type |-> "H&E"]),
      then |-> [must_contain_order |->
                  [sequence |-> <<"deparaffinization", "hematoxylin", "rinse",
                                  "eosin", "dehydrate", "clear">>],
                level |-> "BLOCK"]],
     [id |-> "R-ST-REAGENT-MIN", when |-> None,
      then |-> [reagent_minimum |-> TRUE, level |-> "BLOCK"]] >>

\* SEVERITY of src/main.py is the table of src/app.py, defined above

\* the rule is passed over: the run differs from the rule's "when" in its
\* first key
when_skips(rule, r) ==
  /\ rule.when # None
  /\ LET first_key == CHOOSE k \in DOMAIN rule.when[1] : TRUE
     IN r[first_key] # rule.when[1][first_key]

\* {"rule": rule["id"], "level": level, "message": msg}
rule_finding(rule) == [rule |-> rule.id, level |-> rule.then.level]

\* the loop of must_contain_order from the k-th required name on: TRUE when
\* it appends the finding.  actual.index is the first place of the name.
RECURSIVE order_broken(_, _, _, _)
order_broken(required, actual, k, idx) ==
  IF k > Len(required) THEN FALSE
  ELSE IF required[k] \notin set(actual) \/ index(actual, required[k]) <= idx THEN TRUE
  ELSE order_broken(required, actual, k + 1, index(actual, required[k]))

\* [s["name"] for s in run_dict["steps"]]
step_names(r) == [i \in DOMAIN r.steps |-> r.steps[i].name]

\* the four tests of one rule, in the order of the code
range_test(rule, r, findings) ==
  IF "require_range" \in DOMAIN rule.then
       /\ ~(/\ rule.then.require_range.min <= r[rule.then.require_range.field]
            /\ r[rule.then.require_range.field] <= rule.then.require_range.max)
  THEN Append(findings, rule_finding(rule)) ELSE findings

max_test(rule, r, findings) ==
  IF "require_max" \in DOMAIN rule.then
       /\ r[rule.then.require_max.field] > r[rule.then.require_max.max_from_field]
  THEN Append(findings, rule_finding(rule)) ELSE findings

order_test(rule, r, findings) ==
  IF "must_contain_order" \in DOMAIN rule.then
       /\ order_broken(rule.then.must_contain_order.sequence, step_names(r), 1, -1)
  THEN Append(findings, rule_finding(rule)) ELSE findings

reagent_test(rule, r, findings) ==
  IF "reagent_minimum" \in DOMAIN rule.then
       /\ \E n \in DOMAIN r.reagents :
            r.reagents[n].volume_ml < r.reagents[n].min_required_ml
  THEN Append(findings, rule_finding(rule)) ELSE findings

\* for rule in RULES["rules"]
RECURSIVE rule_loop(_, _, _)
rule_loop(r, k, findings) ==
  IF k > Len(RULES) THEN findings
  ELSE IF when_skips(RULES[k], r) THEN rule_loop(r, k + 1, findings)
  ELSE rule_loop(r, k + 1,
         reagent_test(RULES[k], r,
           order_test(RULES[k], r,
             max_test(RULES[k], r,
               range_test(RULES[k], r, findings)))))

\* the highest level among the findings, OK when there is none
RECURSIVE overall_of(_, _, _)
overall_of(findings, k, overall) ==
  IF k > Len(findings) THEN overall
  ELSE overall_of(findings, k + 1,
         IF SEVERITY[findings[k].level] > SEVERITY[overall]
         THEN findings[k].level ELSE overall)

evaluate(r) ==
  LET findings == rule_loop(r, 1, <<>>)
  IN [run_id |-> r.run_id, overall |-> overall_of(findings, 1, "OK"),
      findings |-> findings]

\* POST /validate: the answer to the request received
validate ==
  /\ run # None
  /\ validation' = Some(evaluate(run[1]))
  /\ UNCHANGED <<classes, reagents, layout, programs, selected_program,
                 selected_for_run, w_mode, water_flow_l_min, last_check, in_flight,
                 run>>

(***************************************************************************)
(* Specifications.  The rule engine is a function of STATE, so each family *)
(* of properties is checked from the configurations a bounded set of       *)
(* requests leaves behind (api_program_save for the steps, api_layout_save *)
(* for the layout, api_wmode for the mode flags, api_reagent_upsert for    *)
(* the catalog, api_run_select for the selection), on which api_check      *)
(* then runs.                                                              *)
(***************************************************************************)
\* all lists over S of at most n entries
SeqsUpTo(S, n) == UNION {[1..k -> S] : k \in 0..n}

\* STATE with the given parts replaced, before any check
Configured(rg, lay, progs, sel, wm, flow) ==
  /\ classes = DEFAULT_CLASSES
  /\ reagents = rg
  /\ layout = lay
  /\ programs = progs
  /\ selected_program = "H&E"
  /\ selected_for_run = sel
  /\ w_mode = wm
  /\ water_flow_l_min = flow
  /\ last_check = None
  /\ in_flight = None
  /\ run = None
  /\ validation = None

DefaultWMode == [w \in {"W1", "W2"} |-> "WATER"]

\* --- order of the stations within one program --------------------------
MaxOrderSteps == 3

\* a blank name, an unknown slot and a padded slot among the steps
OrderSteps ==
  {Step(n, s, 1, e) : n \in {" ", "stain"}, s \in {"R1", " R3", "W5", "ZZ"},
                      e \in BOOLEAN}

InitOrder ==
  \E st \in SeqsUpTo(OrderSteps, MaxOrderSteps) :
    Configured(DEFAULT_REAGENTS, default_layout, [n \in {"H&E"} |-> [steps |-> st]],
               <<"H&E">>, DefaultWMode, 8)

NextOrder == api_check

SpecOrder == InitOrder /\ [][NextOrder]_vars

\* --- kind and class of the station of a step -----------------------------
MaxClassSteps == 1

\* every name with an allowed-class set, a padded one, an oven name and a
\* name without any rule
ClassSteps ==
  {Step(n, s, 1, FALSE) :
     n \in DOMAIN STEP_ALLOWED_CLASSES \cup {" rinse ", "oven", "stain"},
     s \in {"R1", "W1", "W5"}}

\* the layouts api_layout_save leaves on R1, W1 and W5
ClassLayouts ==
  {[default_layout EXCEPT !["R1"] = [reagent_id |-> r1],
                          !["W1"] = [reagent_id |-> w1],
                          !["W5"] = [reagent_id |-> w5]] :
     r1 \in {"EMPTY", "H2O", "HEM"}, w1 \in {"EMPTY", "H2O", "HEM"},
     w5 \in {"EMPTY", "H2O"}}

\* the catalog as shipped, and after api_reagent_upsert has stored a
\* reagent EMPTY of class WATER
ClassCatalogs ==
  {DEFAULT_REAGENTS, [DEFAULT_REAGENTS EXCEPT !["EMPTY"] = Reagent("EMPTY", "WATER")]}

InitClass ==
  \E st \in SeqsUpTo(ClassSteps, MaxClassSteps), lay \in ClassLayouts,
     rg \in ClassCatalogs, m1 \in {"WATER", "REAGENT"} :
    Configured(rg, lay, [n \in {"H&E"} |-> [steps |-> st]], <<"H&E">>,
               [DefaultWMode EXCEPT !["W1"] = m1], 8)

NextClass == api_check

SpecClass == InitClass /\ [][NextClass]_vars

\* --- several programs selected for one run ------------------------------
MaxPairSteps == 2

\* the number of programs api_run_select keeps
MAX_SELECTED == RUN_CAP

PairSteps == {Step("stain", s, 1, e) : s \in {"R1", "R2"}, e \in BOOLEAN}

\* a program that walks along the first n stations of the path
Walk(n) == [i \in 1..n |-> Step("stain", ALL_SLOTS[i], 1, FALSE)]

\* short programs, two programs whose slot text is padded, and two walks
\* that share more stations than a finding lists
PairPrograms ==
  SeqsUpTo(PairSteps, MaxPairSteps)
    \cup {<<Step("stain", " R2", 1, TRUE)>>,
          <<Step("stain", " R2", 1, TRUE), Step("stain", "R1", 1, TRUE)>>,
          Walk(SHARED_CAP + 1), Walk(SHARED_CAP + 2)}

\* the selections api_run_select stores: one to three names, repeats kept.
\* Both programs are drawn from the same set, so a selection that starts
\* with B is one of these with the two programs exchanged.
PairSelections ==
  {sel \in UNION {[1..k -> {"H&E", "B"}] : k \in 1..MAX_SELECTED} : sel[1] = "H&E"}

InitPair ==
  \E pa \in PairPrograms, pb \in PairPrograms, sel \in PairSelections,
     flow \in {7, 8} :
    Configured(DEFAULT_REAGENTS, default_layout,
               [n \in {"H&E", "B"} |-> [steps |-> IF n = "B" THEN pb ELSE pa]],
               sel, DefaultWMode, flow)

NextPair == api_check

SpecPair == InitPair /\ [][NextPair]_vars

\* --- the rules of one program: oven names, malformed steps, IO stations ---
MaxRuleSteps == 3

\* a blank name, two oven names and a name with an allowed-class set, on
\* the oven, a bath, an unknown slot and a transport station
RuleSteps ==
  {Step(n, s, 1, FALSE) : n \in {" ", "oven", "bake", "eosin"},
                          s \in {"OVEN", "R1", "ZZ", "LOAD"}}

InitRule ==
  \E st \in SeqsUpTo(RuleSteps, MaxRuleSteps) :
    Configured(DEFAULT_REAGENTS, default_layout, [n \in {"H&E"} |-> [steps |-> st]],
               <<"H&E">>, DefaultWMode, 8)

NextRule == api_check

SpecRule == InitRule /\ [][NextRule]_vars

\* --- the water stations of the layout -----------------------------------
WaterStations == <<"W1", "W2", "W3", "W4", "W5">>

\* the layouts api_layout_save leaves on W1..W5
WaterLayouts ==
  {[s \in DOMAIN default_layout |->
      IF \E i \in 1..5 : WaterStations[i] = s
      THEN [reagent_id |-> rs[CHOOSE i \in 1..5 : WaterStations[i] = s]]
      ELSE default_layout[s]] :
     rs \in [1..5 -> {"H2O", "HEM", "EMPTY"}]}

\* the mode flags api_wmode leaves
WModes == [{"W1", "W2"} -> {"WATER", "REAGENT"}]

InitLayout ==
  \E lay \in WaterLayouts, wm \in WModes, rg \in ClassCatalogs,
     sel \in {<<"H&E">>, <<"H&E", "H&E">>} :
    Configured(rg, lay, DEFAULT_PROGRAMS, sel, wm, 8)

NextLayout == api_check

SpecLayout == InitLayout /\ [][NextLayout]_vars

\* --- switching the mode of W1 and W2 ---------------------------------------
\* the texts a mode request carries
ModeTexts == {"WATER", "REAGENT", "reagent", "", "BOTH"}

\* W1, W2 and W3 hold any of three reagents, both dual stations start in
\* mode REAGENT, and from there only the mode flags are switched
InitToggle ==
  \E r1 \in {"H2O", "HEM", "EMPTY"}, r2 \in {"H2O", "HEM", "EMPTY"},
     r3 \in {"H2O", "HEM"}, flow \in {7, 8} :
    Configured(DEFAULT_REAGENTS,
               [default_layout EXCEPT !["W1"] = [reagent_id |-> r1],
                                      !["W2"] = [reagent_id |-> r2],
                                      !["W3"] = [reagent_id |-> r3]],
               DEFAULT_PROGRAMS, <<"H&E">>,
               [w \in {"W1", "W2"} |-> "REAGENT"], flow)

NextToggle ==
  \/ \E W1 \in ModeTexts, W2 \in ModeTexts : api_wmode(W1, W2)
  \/ api_check

SpecToggle == InitToggle /\ [][NextToggle]_vars

\* --- the requests on the catalog and the layout, from the shipped state ----
\* identifiers and classes a catalog request carries: the reserved reagent,
\* a new one in lower case, an invalid one; a class, none, an unknown one
ReagentTexts == {"EMPTY", "x1", "?"}

ClassTexts == {"water", "", "NOPE"}

\* layout requests: a new reagent, none and water on W5, and a request
\* whose second entry names an unknown slot
LayoutRequests ==
  { << <<"W5", "x1">> >>, << <<"W5", "">> >>, << <<"W5", "H2O">> >>,
    << <<"W1", "x1">>, <<"ZZ", "H2O">>, <<"W5", "x1">> >> }

Next ==
  \/ \E rid \in ReagentTexts, cid \in ClassTexts : api_reagent_upsert(rid, cid)
  \/ \E rid \in ReagentTexts : api_reagent_delete(rid)
  \/ \E items \in LayoutRequests : api_layout_save(items)
  \/ \E W1 \in ModeTexts, W2 \in {"WATER", "REAGENT"} : api_wmode(W1, W2)
  \/ \E flow \in {7, 8} : api_waterflow(flow)
  \/ api_check

Spec == Init /\ [][Next]_vars

\* --- reassigning the station of a rinse step ------------------------------
\* programs that evaluate without findings once R1 holds xylene and R2
\* hematoxylin: a rinse on one of the water stations, alone or after the
\* two stains
RinsePrograms ==
  UNION {{<<Step("rinse", w, 60, FALSE)>>,
          <<Step("deparaffinization", "R1", 300, TRUE),
            Step("hematoxylin", "R2", 180, TRUE),
            Step("rinse", w, 60, FALSE)>>} : w \in {"W1", "W2", "W3", "W4", "W5"}}

\* the station of the rinse step of H&E
RinseTarget ==
  LET steps == steps_of("H&E")
  IN strip(steps[CHOOSE i \in DOMAIN steps : strip(steps[i].name) = "rinse"].slot)

InitReassign ==
  \E st \in RinsePrograms :
    Configured(DEFAULT_REAGENTS,
               [default_layout EXCEPT !["R1"] = [reagent_id |-> "XYL"],
                                      !["R2"] = [reagent_id |-> "HEM"]],
               [n \in {"H&E"} |-> [steps |-> st]], <<"H&E">>, DefaultWMode, 8)

\* the only requests: the station of the rinse step is given a reagent, and
\* the selection is checked
NextReassign ==
  \/ \E rid \in {"HEM", "ALC96", "EMPTY", "H2O", "NONE"} :
       api_layout_save(<< <<RinseTarget, rid>> >>)
  \/ api_check

SpecReassign == InitReassign /\ [][NextReassign]_vars

\* --- a request that arrives while an evaluation is in flight ---------------
\* programs of one exact step, on R1, on R2 or on the unknown station ZZ
RacePrograms == {<<Step("stain", s, 1, TRUE)>> : s \in {"R1", "R2", "ZZ"}}

InitRace ==
  \E pa \in RacePrograms, pb \in RacePrograms, w5 \in {"H2O", "HEM"} :
    Configured(DEFAULT_REAGENTS,
               [default_layout EXCEPT !["W5"] = [reagent_id |-> w5]],
               [n \in {"H&E", "B"} |-> [steps |-> IF n = "B" THEN pb ELSE pa]],
               <<"H&E", "B">>, DefaultWMode, 8)

NextRace ==
  \/ check_begin
  \/ check_next_program
  \/ check_pairs_and_store
  \/ \E st \in RacePrograms : api_program_save("B", st)
  \/ \E rid \in {"H2O", "HEM"} : api_layout_save(<< <<"W5", rid>> >>)

SpecRace == InitRace /\ [][NextRace]_vars

\* --- the program handlers --------------------------------------------------
\* the names the requests carry: existing, new, padded, empty
NameTexts == {"H&E", "B", " B", ""}

\* the longest run selection a request carries
MaxRunLen == 4

\* the run selections the requests carry; "Q" is never a program
RunRequests == UNION {[1..n -> {"H&E", "B", "Q"}] : n \in 0..MaxRunLen}

\* the steps a save request carries
SavedSteps == {<<Step("stain", "R1", 1, TRUE)>>}

NextPrograms ==
  \/ \E name \in NameTexts : api_program_create(name)
  \/ \E name \in NameTexts : api_program_delete(name)
  \/ \E name \in NameTexts : api_program_select(name)
  \/ \E name \in NameTexts, steps \in SavedSteps : api_program_save(name, steps)
  \/ \E selected \in RunRequests : api_run_select(selected)
  \/ api_check

SpecPrograms == Init /\ [][NextPrograms]_vars

\* --- the runs POST /validate receives --------------------------------------
\* a step of a run
RunStep(name) == [name |-> name, time_sec |-> 1]

REQUIRED_HE == RULES[3].then.must_contain_order.sequence

\* the names of the steps of a run: the required ones and one more
RunNames == set(REQUIRED_HE) \cup {"wash"}

\* xs without its i-th element, and xs with x put in after its i-th
without(xs, i) == SubSeq(xs, 1, i - 1) \o SubSeq(xs, i + 1, Len(xs))

with_inserted(xs, i, x) == SubSeq(xs, 1, i) \o <<x>> \o SubSeq(xs, i + 1, Len(xs))

\* the number of names put into a list
MaxExtraSteps == 1

\* the required sequence, the required sequence less one name, no step
BaseNames == {REQUIRED_HE, <<>>} \cup {without(REQUIRED_HE, i) : i \in DOMAIN REQUIRED_HE}

RECURSIVE Extended(_, _)
Extended(lists, n) ==
  IF n = 0 THEN lists
  ELSE Extended(lists \cup UNION {{with_inserted(xs, i, x) :
                                      i \in 0..Len(xs), x \in RunNames} : xs \in lists},
                n - 1)

RunNameLists == Extended(BaseNames, MaxExtraSteps)

\* the other fields of a run: all within their limits, or all beyond them
RunInput(protocol_type, names, sound) ==
  [run_id |-> "r1", protocol_type |-> protocol_type, run_state |-> "READY",
   slides_loaded |-> IF sound THEN 1 ELSE 2, max_slides_supported |-> 1,
   temperature_c |-> IF sound THEN 20 ELSE 31,
   steps |-> [i \in DOMAIN names |-> RunStep(names[i])],
   reagents |-> [n \in {"xylene"} |->
                   [volume_ml |-> IF sound THEN 5 ELSE 0, min_required_ml |-> 1]]]

Runs ==
  {RunInput(pt, names, sound) :
     pt \in {"H&E", "PAP", "h&e"}, names \in RunNameLists, sound \in BOOLEAN}

\* a request has come in; src/app.py is not involved
InitRun ==
  /\ \E r \in Runs : run = Some(r)
  /\ validation = None
  /\ classes = DEFAULT_CLASSES
  /\ reagents = DEFAULT_REAGENTS
  /\ layout = default_layout
  /\ programs = DEFAULT_PROGRAMS
  /\ selected_program = "H&E"
  /\ selected_for_run = <<"H&E">>
  /\ w_mode = DefaultWMode
  /\ water_flow_l_min = 8
  /\ last_check = None
  /\ in_flight = None

NextRun == validate

SpecRun == InitRun /\ [][NextRun]_vars

(***************************************************************************)
(* Properties                                                              *)
(***************************************************************************)
Checked == last_check # None

\* the result of the last check
Result == last_check[1]

\* the step a finding of check_program is about (0: the whole program)
StepOf(f) == IF f.code \in {"W-EMPTY", "E-NOTFOUND"} THEN 0 ELSE f.details.step

\* the findings of a list that carry a code
WithCode(fs, c) == {i \in DOMAIN fs : fs[i].code = c}

\* a step the validator does not skip: a name that is not blank and a slot
\* that, stripped, is a station
StationOf(s) == strip(s.slot)

HasStation(s) == StationOf(s) \in DOMAIN SLOT_POS

NonBlank(s) == strip(s.name) # ""

Validated(s) == NonBlank(s) /\ HasStation(s)

PosOf(s) == SLOT_POS[StationOf(s)]

\* the positions of the steps that target a station never decrease
NonDecreasing(steps) ==
  \A i, j \in DOMAIN steps :
    (i < j /\ HasStation(steps[i]) /\ HasStation(steps[j]))
      => PosOf(steps[i]) <= PosOf(steps[j])

\* C1: a program whose steps' station positions are non-decreasing in
\* program order gets no E-REVERSE finding from check_program.
C1_NoReverseWhenMonotone ==
  Checked =>
    \A k \in DOMAIN Result.per_program :
      LET r == Result.per_program[k]
      IN NonDecreasing(steps_of(r.program)) => WithCode(r.findings, "E-REVERSE") = {}

\* a checked program of validated steps that moves forward and stays in place
C1_Witness ==
  /\ Checked
  /\ LET r == Result.per_program[1]
         steps == steps_of(r.program)
     IN /\ Len(steps) = 3
        /\ \A i \in DOMAIN steps : Validated(steps[i])
        /\ PosOf(steps[1]) = PosOf(steps[2])
        /\ PosOf(steps[2]) < PosOf(steps[3])
        /\ WithCode(r.findings, "E-REVERSE") = {}

\* some step targets a station below the station of an earlier step
DecreaseAmong(steps, Counted(_)) ==
  \E i, j \in DOMAIN steps :
    /\ i < j
    /\ Counted(steps[i]) /\ Counted(steps[j])
    /\ PosOf(steps[j]) < PosOf(steps[i])

HasReverseBlock(r) ==
  \E i \in WithCode(r.findings, "E-REVERSE") : r.findings[i].level = "BLOCK"

\* C2 as stated: a position decrease between two steps on known stations
\* yields an E-REVERSE BLOCK whatever the names of the steps are.
C2_AsStated ==
  Checked =>
    \A k \in DOMAIN Result.per_program :
      LET r == Result.per_program[k]
      IN DecreaseAmong(steps_of(r.program), HasStation) => HasReverseBlock(r)

\* C2 (amended): a position decrease between two steps that both have a
\* non-blank name and a known station yields at least one E-REVERSE BLOCK.
C2_ReverseWhenDecrease ==
  Checked =>
    \A k \in DOMAIN Result.per_program :
      LET r == Result.per_program[k]
      IN DecreaseAmong(steps_of(r.program), Validated) => HasReverseBlock(r)

\* a decrease separated by a skipped step is reported
C2_Witness ==
  /\ Checked
  /\ LET r == Result.per_program[1]
         steps == steps_of(r.program)
     IN /\ Len(steps) = 3
        /\ Validated(steps[1]) /\ ~Validated(steps[2]) /\ Validated(steps[3])
        /\ PosOf(steps[3]) < PosOf(steps[1])
        /\ HasReverseBlock(r)

\* the highest position among the validated steps before step idx
HighestBefore(steps, idx) ==
  LET ps == {PosOf(steps[i]) : i \in {k \in 1..(idx - 1) : Validated(steps[k])}}
  IN CHOOSE p \in ps : \A q \in ps : q <= p

\* C3 as stated: an E-REVERSE finding carries the position of the flagged
\* step's station and, as previous_pos, the position of the station of the
\* step immediately before it.
C3_AsStated ==
  Checked =>
    \A k \in DOMAIN Result.per_program :
      LET r == Result.per_program[k]
          steps == steps_of(r.program)
      IN \A i \in WithCode(r.findings, "E-REVERSE") :
           LET d == r.findings[i].details
           IN /\ d.pos = PosOf(steps[d.step])
              /\ d.step > 1
              /\ HasStation(steps[d.step - 1])
              /\ d.previous_pos = PosOf(steps[d.step - 1])

\* C3 (amended): an E-REVERSE finding carries the position of the flagged
\* step's station and, as previous_pos, the highest position among the
\* stations of the earlier validated steps, which is above pos.
C3_ReportsHighestEarlier ==
  Checked =>
    \A k \in DOMAIN Result.per_program :
      LET r == Result.per_program[k]
          steps == steps_of(r.program)
      IN \A i \in WithCode(r.findings, "E-REVERSE") :
           LET d == r.findings[i].details
           IN /\ Validated(steps[d.step])
              /\ d.slot = StationOf(steps[d.step])
              /\ d.pos = PosOf(steps[d.step])
              /\ \E j \in 1..(d.step - 1) : Validated(steps[j])
              /\ d.previous_pos = HighestBefore(steps, d.step)
              /\ d.pos < d.previous_pos

\* a flagged step whose predecessor is not the step it is measured against
C3_Witness ==
  /\ Checked
  /\ LET r == Result.per_program[1]
         steps == steps_of(r.program)
     IN \E i \in WithCode(r.findings, "E-REVERSE") :
          LET d == r.findings[i].details
          IN /\ d.step = 3
             /\ Validated(steps[1]) /\ Validated(steps[2])
             /\ d.previous_pos = PosOf(steps[1])
             /\ d.previous_pos > PosOf(steps[2])

\* the wash taxonomy and the effective kind of a station (spec 4.1)
WashNames == {"rinse", "water", "wash"}

EffectiveKind(st) ==
  CASE st \in {"W1", "W2"} -> IF w_mode[st] = "WATER" THEN "water" ELSE "reagent"
    [] st \in {"W3", "W4", "W5"} -> "water"
    [] st = "OVEN" -> "oven"
    [] st \in {"OUTPUT", "UNLOAD", "LOAD"} -> "io"
    [] OTHER -> "reagent"

\* the class of the reagent the layout assigns to a station
AssignedClass(st) == reagents[layout[st].reagent_id].class_id

\* the findings of a program result that are about step idx
OfStep(r, idx) == {i \in DOMAIN r.findings : StepOf(r.findings[i]) = idx}

CodesOfStep(r, idx) == {r.findings[i].code : i \in OfStep(r, idx)}

BlockCodesOfStep(r, idx) ==
  {r.findings[i].code : i \in {k \in OfStep(r, idx) : r.findings[k].level = "BLOCK"}}

\* C4: a wash step (rinse, water, wash) on a known station gets no kind or
\* class finding when the station's effective kind is water and its
\* assigned class is WATER, and a BLOCK kind or class finding otherwise.
C4_WashKindClass ==
  Checked =>
    \A k \in DOMAIN Result.per_program :
      LET r == Result.per_program[k]
          steps == steps_of(r.program)
      IN \A idx \in DOMAIN steps :
           (strip(steps[idx].name) \in WashNames /\ HasStation(steps[idx])) =>
             LET st == StationOf(steps[idx])
             IN IF EffectiveKind(st) = "water" /\ AssignedClass(st) = "WATER"
                THEN CodesOfStep(r, idx) \cap
                       {"E-WATER-KIND", "E-WATER-CLASS", "E-CLASS", "W-EMPTY-SLOT"} = {}
                ELSE BlockCodesOfStep(r, idx) \cap
                       {"E-WATER-KIND", "E-WATER-CLASS"} # {}

\* a rinse on W1 holding water is blocked once W1 is switched to REAGENT
C4_Witness ==
  /\ Checked
  /\ LET r == Result.per_program[1]
         steps == steps_of(r.program)
     IN /\ Len(steps) = 1
        /\ strip(steps[1].name) \in WashNames
        /\ StationOf(steps[1]) = "W1"
        /\ w_mode["W1"] = "REAGENT"
        /\ AssignedClass("W1") = "WATER"
        /\ BlockCodesOfStep(r, 1) = {"E-WATER-KIND"}

MaxLevel(fs) ==
  IF \E i \in DOMAIN fs : fs[i].level = "BLOCK" THEN "BLOCK"
  ELSE IF \E i \in DOMAIN fs : fs[i].level = "WARN" THEN "WARN"
  ELSE "OK"

\* C6: in every result of check_program and of check_multi, overall is the
\* highest level (OK < WARN < BLOCK) among the findings of that result.
C6_OverallIsMaxLevel ==
  /\ LET ghost == check_program("no such program")
     IN ghost.overall = MaxLevel(ghost.findings)
  /\ Checked =>
       /\ Result.overall = MaxLevel(Result.findings)
       /\ \A k \in DOMAIN Result.per_program :
            Result.per_program[k].overall = MaxLevel(Result.per_program[k].findings)

\* a result with a layout warning before and a shared-station warning after
\* the findings of two clean programs: all WARN, overall WARN
C6_Witness ==
  /\ Checked
  /\ Len(Result.selected) = 2
  /\ Len(Result.findings) >= 2
  /\ \A i \in DOMAIN Result.findings : Result.findings[i].level = "WARN"
  /\ Result.findings[1].code = "W-FLOW"
  /\ Result.findings[Len(Result.findings)].code = "W-SHARED-STATIONS"
  /\ Result.overall = "WARN"

\* --- pairs of selected programs ------------------------------------------
\* the stations a program targets, and those it targets with an exact step
Stations(p) ==
  {StationOf(steps_of(p)[i]) : i \in {k \in DOMAIN steps_of(p) : HasStation(steps_of(p)[k])}}

ExactStations(p) ==
  {StationOf(steps_of(p)[i]) :
     i \in {k \in DOMAIN steps_of(p) : steps_of(p)[k].exact /\ HasStation(steps_of(p)[k])}}

\* the place of the first step of p on station st
FirstVisit(p, st) ==
  CHOOSE i \in DOMAIN steps_of(p) :
    /\ HasStation(steps_of(p)[i]) /\ StationOf(steps_of(p)[i]) = st
    /\ \A k \in 1..(i - 1) : ~(HasStation(steps_of(p)[k]) /\ StationOf(steps_of(p)[k]) = st)

\* two stations both programs visit, in opposite orders
OppositeOrder(p1, p2, a, b) ==
  /\ a # b
  /\ {a, b} \subseteq Stations(p1) \cap Stations(p2)
  /\ (FirstVisit(p1, a) < FirstVisit(p1, b)) # (FirstVisit(p2, a) < FirstVisit(p2, b))

\* the pairs of places of the selection that hold p1 and then p2
Places(sel, p1, p2) ==
  {h \in (DOMAIN sel) \X (DOMAIN sel) : h[1] < h[2] /\ sel[h[1]] = p1 /\ sel[h[2]] = p2}

\* the findings with a code that check_multi made for the pair (p1, p2)
OfPair(fs, c, p1, p2) ==
  {i \in DOMAIN fs :
     /\ fs[i].code = c
     /\ fs[i].details.program_1 = p1
     /\ fs[i].details.program_2 = p2}

\* no slot text of a selected program carries blanks around a station name
PlainSlotTexts ==
  \A p \in set(selected_for_run) : \A i \in DOMAIN steps_of(p) :
    HasStation(steps_of(p)[i]) => steps_of(p)[i].slot = StationOf(steps_of(p)[i])

ExactConflictRule(res) ==
  \A p1, p2 \in set(res.selected) :
    LET hits == OfPair(res.findings, "E-EXACT-CONFLICT", p1, p2)
        both == ExactStations(p1) \cap ExactStations(p2)
    IN /\ Cardinality(hits) = IF both # {} THEN Cardinality(Places(res.selected, p1, p2)) ELSE 0
       /\ \A i \in hits :
            /\ res.findings[i].level = "BLOCK"
            /\ set(res.findings[i].details.stations) = both

\* C7: for every pair of selected programs check_multi emits exactly one
\* BLOCK finding E-EXACT-CONFLICT if some station is targeted by an exact
\* step in both programs, and none otherwise; the finding names the
\* stations in conflict (R2 when both programs mark R2 as exact).
C7_OneExactConflictPerPair == Checked => ExactConflictRule(Result)

\* C7, restricted to slot texts without padding (the detector then sees the
\* stations the validator sees)
C7_OnPlainSlotTexts == (Checked /\ PlainSlotTexts) => ExactConflictRule(Result)

\* two programs that both mark R2 as exact: one finding, naming R2
C7_PlainWitness ==
  /\ Checked /\ PlainSlotTexts
  /\ Result.selected = <<"H&E", "B">>
  /\ ExactStations("H&E") = {"R2"} /\ ExactStations("B") = {"R2"}
  /\ \E i \in DOMAIN Result.findings :
       /\ WithCode(Result.findings, "E-EXACT-CONFLICT") = {i}
       /\ Result.findings[i].details.stations = <<"R2">>

\* the stations of the E-EXACT-CONFLICT findings of a result
ConflictStations(res) ==
  {res.findings[i].details.stations : i \in WithCode(res.findings, "E-EXACT-CONFLICT")}

\* C8: exact_station_conflict(A, B) = exact_station_conflict(B, A), and the
\* selections [A, B] and [B, A] report an exact conflict in both or in
\* neither, with the same stations.
C8_ExactConflictSymmetric ==
  \A p1, p2 \in DOMAIN programs :
    /\ exact_station_conflict(steps_of(p1), steps_of(p2))
         = exact_station_conflict(steps_of(p2), steps_of(p1))
    /\ (Checked /\ Result.selected = <<p1, p2>>)
         => ConflictStations(Result) = ConflictStations(check_multi(<<p2, p1>>))

\* a reported conflict between two programs that differ in their exact
\* steps, found again with the selection reversed
C8_Witness ==
  /\ Checked
  /\ Result.selected = <<"H&E", "B">>
  /\ ExactStations("H&E") = {"R1", "R2"} /\ ExactStations("B") = {"R2"}
  /\ Stations("B") = {"R1", "R2"}
  /\ ConflictStations(Result) = {<<"R2">>}
  /\ ConflictStations(check_multi(<<"B", "H&E">>)) = {<<"R2">>}

ReverseConflictRule(res) ==
  \A p1, p2 \in set(res.selected) :
    LET hits == OfPair(res.findings, "E-REVERSE-CONFLICT", p1, p2)
        differs == \E a, b \in Stations(p1) \cap Stations(p2) : OppositeOrder(p1, p2, a, b)
    IN /\ Cardinality(hits) = IF differs THEN Cardinality(Places(res.selected, p1, p2)) ELSE 0
       /\ \A i \in hits :
            /\ res.findings[i].level = "BLOCK"
            /\ Len(res.findings[i].details.stations) = 2
            /\ OppositeOrder(p1, p2, res.findings[i].details.stations[1],
                             res.findings[i].details.stations[2])

\* C9: for every pair of selected programs check_multi emits a BLOCK
\* finding E-REVERSE-CONFLICT iff two distinct stations visited by both
\* programs are first visited in opposite orders, and the finding names
\* such a pair of stations.
C9_ReverseConflictIffOpposite == Checked => ReverseConflictRule(Result)

\* C9, restricted to slot texts without padding
C9_OnPlainSlotTexts == (Checked /\ PlainSlotTexts) => ReverseConflictRule(Result)

\* R1 before R2 in one program, R2 before R1 in the other
C9_PlainWitness ==
  /\ Checked /\ PlainSlotTexts
  /\ Result.selected = <<"H&E", "B">>
  /\ OppositeOrder("H&E", "B", "R1", "R2")
  /\ Cardinality(WithCode(Result.findings, "E-REVERSE-CONFLICT")) = 1

SharedStationsRule(res) ==
  \A p1, p2 \in set(res.selected) :
    LET hits == OfPair(res.findings, "W-SHARED-STATIONS", p1, p2)
        both == Stations(p1) \cap Stations(p2)
    IN /\ Cardinality(hits) = IF both # {} THEN Cardinality(Places(res.selected, p1, p2)) ELSE 0
       /\ \A i \in hits :
            /\ res.findings[i].level = "WARN"
            /\ set(res.findings[i].details.stations) \subseteq both
            /\ Len(res.findings[i].details.stations) <= 10

\* C10: for every pair of selected programs check_multi emits exactly one
\* WARN finding W-SHARED-STATIONS if the two programs target a common
\* station, and none otherwise; the stations it lists are visited by both
\* programs and are at most 10.
C10_OneSharedWarningPerPair == Checked => SharedStationsRule(Result)

\* C10, restricted to slot texts without padding
C10_OnPlainSlotTexts == (Checked /\ PlainSlotTexts) => SharedStationsRule(Result)

\* two programs with more than ten common stations: ten are listed
C10_PlainWitness ==
  /\ Checked /\ PlainSlotTexts
  /\ Result.selected = <<"H&E", "B">>
  /\ Cardinality(Stations("H&E") \cap Stations("B")) > 10
  /\ \E i \in WithCode(Result.findings, "W-SHARED-STATIONS") :
       Len(Result.findings[i].details.stations) = 10

\* --- the oven-count rule ---------------------------------------------------
OvenNamed(s) == strip(s.name) \in OVEN_STEPS

OvenCountRule(r) ==
  LET steps == steps_of(r.program)
      n == Cardinality({i \in DOMAIN steps : OvenNamed(steps[i])})
      hits == WithCode(r.findings, "E-OVEN-COUNT")
  IN /\ n >= 2 => \E i \in hits : r.findings[i].level = "BLOCK"
     /\ n <= 1 => hits = {}

\* C11: check_program emits at least one BLOCK finding E-OVEN-COUNT for a
\* program with two or more steps named oven, bake or dry, and none for a
\* program with at most one such step.
C11_OvenCountPerProgram ==
  Checked => \A k \in DOMAIN Result.per_program : OvenCountRule(Result.per_program[k])

\* C11, restricted to programs whose oven steps all target a known station
C11_OnKnownStations ==
  Checked =>
    \A k \in DOMAIN Result.per_program :
      LET steps == steps_of(Result.per_program[k].program)
      IN (\A i \in DOMAIN steps : OvenNamed(steps[i]) => HasStation(steps[i]))
           => OvenCountRule(Result.per_program[k])

\* a second oven step on the oven itself is the one that is reported
C11_KnownWitness ==
  /\ Checked
  /\ LET r == Result.per_program[1]
         steps == steps_of(r.program)
     IN /\ Len(steps) = 2
        /\ steps[1].name = "oven" /\ steps[2].name = "bake"
        /\ steps[1].slot = "OVEN" /\ steps[2].slot = "OVEN"
        /\ \E i \in DOMAIN r.findings :
             /\ WithCode(r.findings, "E-OVEN-COUNT") = {i}
             /\ r.findings[i].details.step = 2
             /\ r.findings[i].level = "BLOCK"

\* --- malformed steps ----------------------------------------------------
\* the list without its entry at place idx
Removed(xs, idx) == SubSeq(xs, 1, idx - 1) \o SubSeq(xs, idx + 1, Len(xs))

\* the findings of a list of steps as the loop of check_program makes them
StepFindings(steps) ==
  step_loop(steps, 1, [findings |-> <<>>, overall |-> "OK",
                       last_pos |-> LAST_POS_START, oven_count |-> 0]).findings

\* the findings that are not about step idx, with the later steps moved up
WithoutStep(fs, idx) ==
  LET rest == SelectSeq(fs, LAMBDA f : StepOf(f) # idx)
  IN [i \in DOMAIN rest |->
        IF StepOf(rest[i]) > idx
        THEN [rest[i] EXCEPT !.details.step = @ - 1]
        ELSE rest[i]]

\* C12: a step with a blank name or an unknown slot gets exactly one BLOCK
\* finding (E-STEP-NAME or E-SLOT) and no other, and the findings of the
\* other steps are those of the program without that step, up to the step
\* index.
C12_MalformedStepIsolated ==
  Checked =>
    \A k \in DOMAIN Result.per_program :
      LET r == Result.per_program[k]
          steps == steps_of(r.program)
      IN \A idx \in DOMAIN steps :
           ~Validated(steps[idx]) =>
             /\ Cardinality(OfStep(r, idx)) = 1
             /\ \A i \in OfStep(r, idx) :
                  /\ r.findings[i].level = "BLOCK"
                  /\ r.findings[i].code =
                       IF NonBlank(steps[idx]) THEN "E-SLOT" ELSE "E-STEP-NAME"
             /\ WithoutStep(r.findings, idx) = StepFindings(Removed(steps, idx))

\* a blank step on a transport station between two oven steps: the second
\* oven step is still reported, as step 3, and nothing else is
C12_Witness ==
  /\ Checked
  /\ LET r == Result.per_program[1]
         steps == steps_of(r.program)
     IN /\ Len(steps) = 3
        /\ steps[1].name = "oven" /\ steps[1].slot = "OVEN"
        /\ steps[2].name = " " /\ steps[2].slot = "LOAD"
        /\ steps[3].name = "bake" /\ steps[3].slot = "OVEN"
        /\ [i \in DOMAIN r.findings |-> <<r.findings[i].code, StepOf(r.findings[i])>>]
             = << <<"E-STEP-NAME", 2>>, <<"E-OVEN-COUNT", 3>> >>
        /\ StepFindings(Removed(steps, 2)) # <<>>

\* --- transport stations -------------------------------------------------
IoStations == {"OUTPUT", "UNLOAD", "LOAD"}

OnIoStation(s) == Validated(s) /\ StationOf(s) \in IoStations

\* C18: a step that targets OUTPUT, UNLOAD or LOAD never causes an ordering
\* finding (E-REVERSE) or a class finding (E-CLASS, W-EMPTY-SLOT), neither
\* for that step nor, through the carried last position, for a later step.
C18_IoStationsExempt ==
  Checked =>
    \A k \in DOMAIN Result.per_program :
      LET r == Result.per_program[k]
          steps == steps_of(r.program)
      IN /\ \A idx \in DOMAIN steps :
              OnIoStation(steps[idx]) =>
                CodesOfStep(r, idx) \cap {"E-REVERSE", "E-CLASS", "W-EMPTY-SLOT"} = {}
         /\ \A i \in WithCode(r.findings, "E-REVERSE") :
              r.findings[i].details.previous_pos \notin {SLOT_POS[io] : io \in IoStations}

\* an oven step that ends the program on LOAD is reported for its slot only
C18_Witness ==
  /\ Checked
  /\ LET r == Result.per_program[1]
         steps == steps_of(r.program)
     IN /\ Len(steps) = 2
        /\ steps[1].name = "eosin" /\ steps[1].slot = "R1"
        /\ steps[2].name = "oven" /\ steps[2].slot = "LOAD"
        /\ CodesOfStep(r, 2) = {"E-OVEN-SLOT"}

\* --- layout-level findings ------------------------------------------------
\* the findings check_multi did not tag with a program
LayoutFindings(res) ==
  SelectSeq(res.findings, LAMBDA f : "program" \notin DOMAIN f)

\* the layout-level findings with a code about a station
OfStation(fs, c, w) == {i \in WithCode(fs, c) : fs[i].details.slot = w}

\* C13: whatever is selected, check_layout_water_rules emits exactly one
\* BLOCK finding E-WATER-FIXED for each of W3, W4, W5 whose assigned class
\* is not WATER, exactly one BLOCK finding E-W12-WATERMODE for each of W1,
\* W2 in mode WATER whose assigned class is not WATER, and no class finding
\* for W1 or W2 in mode REAGENT.
C13_LayoutWaterRules ==
  Checked =>
    LET fs == LayoutFindings(Result)
    IN /\ \A w \in {"W3", "W4", "W5"} :
            /\ Cardinality(OfStation(fs, "E-WATER-FIXED", w))
                 = IF AssignedClass(w) # "WATER" THEN 1 ELSE 0
            /\ OfStation(fs, "E-W12-WATERMODE", w) = {}
       /\ \A w \in {"W1", "W2"} :
            /\ Cardinality(OfStation(fs, "E-W12-WATERMODE", w))
                 = IF w_mode[w] = "WATER" /\ AssignedClass(w) # "WATER" THEN 1 ELSE 0
            /\ OfStation(fs, "E-WATER-FIXED", w) = {}
       /\ \A i \in DOMAIN fs :
            fs[i].code \in {"E-WATER-FIXED", "E-W12-WATERMODE"} => fs[i].level = "BLOCK"

\* hematoxylin on all five water stations, W1 in mode WATER and W2 in mode
\* REAGENT: four findings, none for W2
C13_Witness ==
  /\ Checked
  /\ \A w \in {"W1", "W2", "W3", "W4", "W5"} : layout[w].reagent_id = "HEM"
  /\ w_mode["W1"] = "WATER" /\ w_mode["W2"] = "REAGENT"
  /\ [i \in DOMAIN LayoutFindings(Result) |->
        <<LayoutFindings(Result)[i].code, LayoutFindings(Result)[i].details.slot>>]
       = << <<"E-WATER-FIXED", "W3">>, <<"E-WATER-FIXED", "W4">>,
            <<"E-WATER-FIXED", "W5">>, <<"E-W12-WATERMODE", "W1">> >>

\* --- the mode switch -------------------------------------------------------
\* the layout-level findings of the present configuration
LayoutFindingsNow ==
  LET fs == check_layout_water_rules(<<>>).findings
  IN {fs[i] : i \in DOMAIN fs}

\* every finding the layout rules can make of W1, W2 and W3 with the
\* reagents in use, and the flow warning
LayoutFindingCandidates ==
  {Finding("E-W12-WATERMODE", "BLOCK",
     [slot |-> w, mode |-> "WATER", reagent |-> r,
      class |-> DEFAULT_REAGENTS[r].class_id]) :
     w \in {"W1", "W2"}, r \in {"HEM", "EMPTY"}}
  \cup {Finding("E-WATER-FIXED", "BLOCK",
          [slot |-> "W3", reagent |-> "HEM", class |-> "HEMATOXYLIN"]),
        Finding("W-FLOW", "WARN", [water_flow_l_min |-> 7])}

\* C14: switching W1 or W2 to mode WATER and back to mode REAGENT, with no
\* other change, brings back the set of layout-level findings: whenever the
\* mode flags return to an earlier value, each finding is present exactly
\* if it was present then.
C14_ToggleRestoresFindings ==
  \A m \in WModes : \A f \in LayoutFindingCandidates : \A b \in BOOLEAN :
    []((w_mode = m /\ (f \in LayoutFindingsNow) = b)
         => [](w_mode = m => (f \in LayoutFindingsNow) = b))

\* the findings are among the candidates, so that the comparison above is
\* one of the whole sets
C14_CandidatesCover == LayoutFindingsNow \subseteq LayoutFindingCandidates

\* W1 holds hematoxylin and is back in mode REAGENT after a check in mode
\* WATER reported it: the finding is gone again
C14_Witness ==
  /\ Checked
  /\ layout["W1"].reagent_id = "HEM"
  /\ w_mode = [w \in {"W1", "W2"} |-> "REAGENT"]
  /\ OfStation(LayoutFindings(Result), "E-W12-WATERMODE", "W1") # {}
  /\ \A f \in LayoutFindingsNow : f.code # "E-W12-WATERMODE"

\* --- the check and the shared state ---------------------------------------
\* C15: an evaluation never mutates shared state: after api_check every
\* component of STATE, last_check included, has the value it had before.
C15_CheckLeavesStateAlone == [][api_check => UNCHANGED vars]_vars

\* C15, for the components other than last_check
C15_CheckLeavesConfiguration ==
  [][api_check => UNCHANGED <<classes, reagents, layout, programs, selected_program,
                              selected_for_run, w_mode, water_flow_l_min>>]_vars

\* a check has replaced an earlier result: last_check holds the evaluation
\* of the present configuration
C15_Witness ==
  /\ Checked
  /\ water_flow_l_min = 7
  /\ Result = check_multi(selected_for_run)
  /\ \E i \in DOMAIN Result.findings : Result.findings[i].code = "W-FLOW"

\* --- the shipped state ------------------------------------------------------
\* STATE as shipped, last_check aside
ShippedConfiguration ==
  /\ classes = DEFAULT_CLASSES
  /\ reagents = DEFAULT_REAGENTS
  /\ layout = default_layout
  /\ programs = DEFAULT_PROGRAMS
  /\ selected_program = "H&E"
  /\ selected_for_run = <<"H&E">>
  /\ w_mode = DefaultWMode
  /\ water_flow_l_min = 8

\* C17: the shipped H&E program evaluated in the shipped state yields
\* overall = OK and no findings.
C17_ShippedProgramIsClean ==
  [][(ShippedConfiguration /\ last_check' # last_check)
       => (last_check'[1].overall = "OK" /\ last_check'[1].findings = <<>>)]_vars

\* the shipped state after its first check: the steps after the rinse on
\* W5 go back to R3, R4 and R5, and R1..R5 are unassigned
C17_Witness ==
  /\ ShippedConfiguration
  /\ Checked
  /\ Result.overall = "BLOCK"
  /\ {StepOf(Result.findings[i]) : i \in WithCode(Result.findings, "E-REVERSE")} = {4, 5, 6}
  /\ {StepOf(Result.findings[i]) : i \in WithCode(Result.findings, "W-EMPTY-SLOT")}
       = {1, 2, 4, 5, 6}

\* --- the reserved reagent --------------------------------------------------
\* C20: in every reachable state the reagent EMPTY exists in the catalog
\* and its class is EMPTY, so reagent_class("EMPTY") = "EMPTY".
C20_EmptyKeepsItsClass ==
  /\ "EMPTY" \in DOMAIN reagents
  /\ reagents["EMPTY"].class_id = "EMPTY"
  /\ reagent_class("EMPTY") = "EMPTY"

\* C20, the part about existence: EMPTY is never deleted, and every station
\* holds a reagent of the catalog
C20_EmptyExists ==
  /\ "EMPTY" \in DOMAIN reagents
  /\ \A s \in DOMAIN layout : layout[s].reagent_id \in DOMAIN reagents

\* the catalog has gained a reagent and lost none, EMPTY as shipped
C20_Witness ==
  /\ "X1" \in DOMAIN reagents
  /\ layout["W5"].reagent_id = "X1"
  /\ reagents["EMPTY"] = Reagent("EMPTY", "EMPTY")

\* --- a rinse whose station is reassigned -----------------------------------
\* the last check found nothing, and the station of the rinse step has since
\* been given a reagent that is not of class WATER
CleanThenReassigned ==
  /\ Checked
  /\ Result.overall = "OK" /\ Result.findings = <<>>
  /\ AssignedClass(RinseTarget) # "WATER"

\* the place of the rinse step in H&E
RinseStep == CHOOSE i \in DOMAIN steps_of("H&E") : strip(steps_of("H&E")[i].name) = "rinse"

BlockFindings(fs) == {i \in DOMAIN fs : fs[i].level = "BLOCK"}

\* C16 as stated: the evaluation after the reassignment returns exactly one
\* BLOCK finding, the class mismatch of the rinse step, and overall BLOCK.
C16_AsStated ==
  [][(CleanThenReassigned /\ last_check' # last_check) =>
       LET res == last_check'[1]
       IN /\ res.overall = "BLOCK"
          /\ Cardinality(BlockFindings(res.findings)) = 1
          /\ \A i \in BlockFindings(res.findings) :
               /\ res.findings[i].code = "E-WATER-CLASS"
               /\ StepOf(res.findings[i]) = RinseStep]_vars

\* C16 (amended): the evaluation returns overall BLOCK and exactly two
\* findings, both BLOCK: the layout-level finding about the station
\* (E-WATER-FIXED for W3..W5, E-W12-WATERMODE for W1 and W2) and the class
\* mismatch E-WATER-CLASS of the rinse step, which is the only finding of
\* the program itself.
C16_ReassignedRinseBlocksTwice ==
  [][(CleanThenReassigned /\ last_check' # last_check) =>
       LET res == last_check'[1]
           own == res.per_program[1].findings
       IN /\ res.overall = "BLOCK"
          /\ Len(res.findings) = 2
          /\ res.findings[1].level = "BLOCK"
          /\ res.findings[1].code =
               IF RinseTarget \in {"W1", "W2"} THEN "E-W12-WATERMODE" ELSE "E-WATER-FIXED"
          /\ res.findings[1].details.slot = RinseTarget
          /\ "program" \notin DOMAIN res.findings[1]
          /\ res.findings[2].level = "BLOCK"
          /\ res.findings[2].code = "E-WATER-CLASS"
          /\ StepOf(res.findings[2]) = RinseStep
          /\ res.findings[2].program = "H&E"
          /\ Len(own) = 1 /\ own[1].code = "E-WATER-CLASS"
          /\ res.per_program[1].overall = "BLOCK"]_vars

\* the three-step program was checked without findings and the station of
\* its rinse, W5, now holds alcohol: the next check is the one at issue
C16_Witness ==
  /\ CleanThenReassigned
  /\ Len(steps_of("H&E")) = 3
  /\ RinseTarget = "W5"
  /\ layout["W5"].reagent_id = "ALC96"

\* --- C19 -------------------------------------------------------------------
\* the configuration the rules read
configuration == <<classes, reagents, layout, programs, w_mode, water_flow_l_min>>

\* what the evaluation in flight has gathered is what the present
\* configuration yields for the programs checked so far
PrefixConsistent ==
  in_flight[1].acc =
    program_loop(SubSeq(in_flight[1].selected, 1, in_flight[1].k), 1, layout_part)

\* The stretches put together are check_multi: an evaluation that no request
\* has disturbed stores check_multi(selected) of the configuration.
C19_UndisturbedIsCheckMulti ==
  [][(check_pairs_and_store /\ PrefixConsistent)
       => last_check' = Some(check_multi(in_flight[1].selected))]_vars

\* C19: an evaluation that a configuration-changing request overtakes still
\* returns the evaluation of one configuration: when all it has gathered
\* agrees with the configuration before the request, what it goes on to
\* return is check_multi of the configuration before the request or of the
\* one after it.  The code violates this: no lock is held, and the loops
\* over the pairs read STATE["programs"] again.
C19_SingleSnapshot ==
  [][(/\ in_flight # None
      /\ in_flight' = in_flight
      /\ PrefixConsistent
      /\ configuration' # configuration)
       => finished(in_flight[1])' \in {check_multi(in_flight[1].selected),
                                       check_multi(in_flight[1].selected)'}]_vars

\* B's own findings are those of a step on the unknown station ZZ, the
\* findings of the pair those of a step on a station H&E claims too
C19_Witness ==
  /\ last_check # None
  /\ \E i \in DOMAIN last_check[1].findings :
       /\ last_check[1].findings[i].code = "E-SLOT"
       /\ last_check[1].findings[i].program = "B"
  /\ \E i \in DOMAIN last_check[1].findings :
       /\ last_check[1].findings[i].code = "E-EXACT-CONFLICT"
       /\ last_check[1].findings[i].program = pair_label("H&E", "B")

\* --- C21 -------------------------------------------------------------------
\* C21: the run selection holds one to three names, each of them a program
\* that exists.
C21_RunSelectionValid ==
  /\ Len(selected_for_run) \in 1..RUN_CAP
  /\ \A i \in DOMAIN selected_for_run : selected_for_run[i] \in DOMAIN programs

\* what C21 rests on: the program under edit exists
C21_SelectedProgramExists == selected_program \in DOMAIN programs

\* api_check never meets a name that is no program
C21_CheckFindsEveryProgram ==
  last_check # None =>
    \A i \in DOMAIN last_check[1].findings :
      last_check[1].findings[i].code # "E-NOTFOUND"

\* a program of the run selection has been deleted, and what is left of
\* the selection has been checked
C21_Witness ==
  /\ "H&E" \notin DOMAIN programs
  /\ selected_for_run = <<"B", "B">>
  /\ last_check # None
  /\ last_check[1].selected = <<"B", "B">>

\* --- C22 -------------------------------------------------------------------
\* C22: the layout assigns a reagent to every station of ALL_SLOTS and to
\* nothing else, and every reagent it assigns is in the catalog.
C22_LayoutIsTotal ==
  /\ DOMAIN layout = set(ALL_SLOTS)
  /\ \A s \in set(ALL_SLOTS) :
       /\ DOMAIN layout[s] = {"reagent_id"}
       /\ layout[s].reagent_id \in DOMAIN reagents

\* W1 and W5 were given x1, which the catalog does not hold (it was never
\* there, or has been deleted since): both stations hold EMPTY
C22_Witness ==
  /\ "X1" \notin DOMAIN reagents
  /\ layout["W1"].reagent_id = "EMPTY"
  /\ layout["W5"].reagent_id = "EMPTY"

\* --- C23 -------------------------------------------------------------------
\* C23: a step with a name, on a known station, whose name is neither a wash
\* name nor an oven name, gets E-CLASS (a BLOCK) exactly when its name has an
\* allowed-class set, the class assigned to its station is not EMPTY and
\* that class is not in the set; a name without an allowed-class set gets
\* neither E-CLASS nor W-EMPTY-SLOT, whatever the station holds.
C23_ClassRule ==
  Checked =>
    \A k \in DOMAIN Result.per_program :
      LET r == Result.per_program[k]
          steps == steps_of(r.program)
      IN \A idx \in DOMAIN steps :
           LET name == strip(steps[idx].name)
               sc == AssignedClass(StationOf(steps[idx]))
           IN (Validated(steps[idx]) /\ name \notin WATER_STEPS \cup OVEN_STEPS) =>
                /\ "E-CLASS" \in CodesOfStep(r, idx)
                     <=> /\ name \in DOMAIN STEP_ALLOWED_CLASSES
                         /\ sc # "EMPTY"
                         /\ sc \notin set(STEP_ALLOWED_CLASSES[name])
                /\ "E-CLASS" \in CodesOfStep(r, idx)
                     => "E-CLASS" \in BlockCodesOfStep(r, idx)
                /\ name \notin DOMAIN STEP_ALLOWED_CLASSES
                     => CodesOfStep(r, idx) \cap {"E-CLASS", "W-EMPTY-SLOT"} = {}

\* an eosin step on R1, which holds water, is blocked
C23_Witness ==
  /\ Checked
  /\ LET r == Result.per_program[1]
         steps == steps_of(r.program)
     IN /\ Len(steps) = 1
        /\ steps[1].name = "eosin"
        /\ StationOf(steps[1]) = "R1"
        /\ AssignedClass("R1") = "WATER"
        /\ BlockCodesOfStep(r, 1) = {"E-CLASS"}

\* a step with a name of no allowed-class set on the unassigned R1: no
\* finding
C23_UnconstrainedWitness ==
  /\ Checked
  /\ LET r == Result.per_program[1]
         steps == steps_of(r.program)
     IN /\ Len(steps) = 1
        /\ steps[1].name = "stain"
        /\ StationOf(steps[1]) = "R1"
        /\ AssignedClass("R1") = "EMPTY"
        /\ CodesOfStep(r, 1) = {}

\* --- C24 -------------------------------------------------------------------
\* every step of the program has a name and a known station
AllValidated(p) == \A i \in DOMAIN steps_of(p) : Validated(steps_of(p)[i])

\* C24: two selected programs whose steps all have a name and a known
\* station, and neither of which gets E-REVERSE from check_program, have no
\* reverse-order conflict: reverse_order_conflict returns None for the pair
\* and check_multi reports no E-REVERSE-CONFLICT for it.
C24_OrderedProgramsAgree ==
  Checked =>
    \A i, j \in DOMAIN Result.selected :
      LET p1 == Result.selected[i]
          p2 == Result.selected[j]
      IN ( /\ i < j
           /\ AllValidated(p1) /\ AllValidated(p2)
           /\ WithCode(Result.per_program[i].findings, "E-REVERSE") = {}
           /\ WithCode(Result.per_program[j].findings, "E-REVERSE") = {} ) =>
           /\ reverse_order_conflict(steps_of(p1), steps_of(p2)) = None
           /\ OfPair(Result.findings, "E-REVERSE-CONFLICT", p1, p2) = {}

\* two different programs that both go from R1 to R2 have been checked
C24_Witness ==
  /\ Checked
  /\ Result.selected = <<"H&E", "B">>
  /\ steps_of("H&E") # steps_of("B")
  /\ Len(steps_of("H&E")) = 2 /\ Len(steps_of("B")) = 2
  /\ AllValidated("H&E") /\ AllValidated("B")
  /\ slot_order(steps_of("H&E")) = <<"R1", "R2">>
  /\ slot_order(steps_of("B")) = <<"R1", "R2">>
  /\ WithCode(Result.per_program[1].findings, "E-REVERSE") = {}
  /\ WithCode(Result.per_program[2].findings, "E-REVERSE") = {}
  /\ WithCode(Result.findings, "E-REVERSE-CONFLICT") = {}

\* --- C25 -------------------------------------------------------------------
\* the request names a slot that is no station: it is answered with 400
Rejected(items) == \E i \in DOMAIN items : items[i][1] \notin DOMAIN layout

\* C25: a layout request that names an unknown slot leaves the layout as it
\* was.  The code violates this: the entries before the unknown slot have
\* been written when the loop returns.
C25_RejectedSaveChangesNothing ==
  [][\A items \in LayoutRequests :
       (Rejected(items) /\ api_layout_save(items)) => layout' = layout]_vars

\* what does hold: the entries after the unknown slot are not applied, and
\* nothing but the layout changes
C25_RejectedSaveStopsAtUnknownSlot ==
  [][\A items \in LayoutRequests :
       (Rejected(items) /\ api_layout_save(items)) =>
         LET first == CHOOSE i \in DOMAIN items :
                        /\ items[i][1] \notin DOMAIN layout
                        /\ \A k \in 1..(i - 1) : items[k][1] \in DOMAIN layout
         IN /\ \A s \in DOMAIN layout :
                 s \notin {items[k][1] : k \in 1..(first - 1)} => layout'[s] = layout[s]
            /\ UNCHANGED <<classes, reagents, programs, selected_program,
                           selected_for_run, w_mode, water_flow_l_min, last_check>>]_vars

\* W1 holds X1: only the rejected request names W1
C25_Witness ==
  /\ layout["W1"].reagent_id = "X1"
  /\ layout["W5"].reagent_id # "X1"

\* --- C26 -------------------------------------------------------------------
\* req occurs in act as an in-order subsequence, from the places i and j on
RECURSIVE OccursInOrder(_, _, _, _)
OccursInOrder(req, act, i, j) ==
  IF i > Len(req) THEN TRUE
  ELSE IF j > Len(act) THEN FALSE
  ELSE IF act[j] = req[i] THEN OccursInOrder(req, act, i + 1, j + 1)
  ELSE OccursInOrder(req, act, i, j + 1)

SequenceFinding ==
  \E i \in DOMAIN validation[1].findings :
    /\ validation[1].findings[i].rule = "R-ST-STEP-SEQUENCE-HE"
    /\ validation[1].findings[i].level = "BLOCK"

Repeats(names) == \E i, j \in DOMAIN names : i # j /\ names[i] = names[j]

\* C26: for a run of protocol type H&E the finding R-ST-STEP-SEQUENCE-HE is
\* emitted exactly when the required sequence does not occur as an in-order
\* subsequence of the names of the run's steps; for any other protocol type
\* it is never emitted.  The code violates the first half on step lists that
\* repeat a name.
C26_SequenceRule ==
  validation # None =>
    IF run[1].protocol_type = "H&E"
    THEN SequenceFinding <=> ~OccursInOrder(REQUIRED_HE, step_names(run[1]), 1, 1)
    ELSE ~SequenceFinding

\* what does hold: the finding is emitted whenever the required sequence
\* does not occur, never for another protocol type, and exactly when the
\* sequence does not occur if no name is repeated
C26_OnDistinctNames ==
  validation # None =>
    /\ run[1].protocol_type # "H&E" => ~SequenceFinding
    /\ (run[1].protocol_type = "H&E"
          /\ ~OccursInOrder(REQUIRED_HE, step_names(run[1]), 1, 1)) => SequenceFinding
    /\ (run[1].protocol_type = "H&E" /\ ~Repeats(step_names(run[1])))
         => (SequenceFinding <=> ~OccursInOrder(REQUIRED_HE, step_names(run[1]), 1, 1))

\* a run that holds the required sequence after an early hematoxylin step
\* is blocked
C26_Witness ==
  /\ validation # None
  /\ run[1].protocol_type = "H&E"
  /\ step_names(run[1]) = <<"hematoxylin">> \o REQUIRED_HE
  /\ SequenceFinding

====
